---------------------------- MODULE Spec2Model ----------------------------
(***************************************************************************)
(* Model of the admin backend's two cooperating pieces:                    *)
(*   - the error middleware (src/middleware/errorHandler.js), a function   *)
(*     from a raised fault to one JSON error response;                     *)
(*   - the document routes (routes/firestore.js) and the socket rooms      *)
(*     (server.js) through which create / update / delete are mirrored to  *)
(*     the clients that joined the room of a collection.                   *)
(***************************************************************************)
EXTENDS Naturals, Integers, Sequences, FiniteSets, TLC

(***************************************************************************)
(* JavaScript values.  A value carries its type, so that `undefined`,      *)
(* `null`, a string and a number stay distinct the way the code sees them. *)
(***************************************************************************)
Undef == [t |-> "undefined", s |-> "", n |-> 0, l |-> <<>>]
Null == [t |-> "null", s |-> "", n |-> 0, l |-> <<>>]
Str(x) == [t |-> "string", s |-> x, n |-> 0, l |-> <<>>]
Num(k) == [t |-> "number", s |-> "", n |-> k, l |-> <<>>]
Obj(list) == [t |-> "object", s |-> "", n |-> 0, l |-> list]
Bool(b) == [t |-> "boolean", s |-> "", n |-> IF b THEN 1 ELSE 0, l |-> <<>>]

\* JavaScript truthiness of a value (used by `a && b`, `a || b`, `if (a)`).
Truthy(v) ==
    \/ v.t = "boolean" /\ v.n = 1
    \/ v.t = "string" /\ v.s # ""
    \/ v.t = "number" /\ v.n # 0
    \/ v.t = "object"

\* a || b
OrElse(a, b) == IF Truthy(a) THEN a ELSE b

\* String.prototype.startsWith and String.prototype.includes on string texts.
StartsWith(s, p) == Len(s) >= Len(p) /\ SubSeq(s, 1, Len(p)) = p
Includes(s, p) == \E i \in 1..(Len(s) + 1 - Len(p)) : SubSeq(s, i, i + Len(p) - 1) = p

\* v === "text"
IsStr(v, x) == v.t = "string" /\ v.s = x

(***************************************************************************)
(* APIError (errorHandler.js:6-15).  The constructor's default parameters  *)
(* apply to `undefined` only: statusCode = 500, code = null, details =     *)
(* null.                                                                   *)
(***************************************************************************)
APIError(message, statusCode, code, details) ==
    [ name |-> Str("APIError"),
      message |-> message,
      statusCode |-> IF statusCode.t = "undefined" THEN Num(500) ELSE statusCode,
      code |-> IF code.t = "undefined" THEN Null ELSE code,
      details |-> IF details.t = "undefined" THEN Null ELSE details,
      isOperational |-> TRUE ]

\* createError (errorHandler.js:272-274)
createError(message, statusCode, code, details) ==
    APIError(message, statusCode, code, details)

(***************************************************************************)
(* The static tables of errorHandler.js.  A table is a function from the   *)
(* keys to [status, message]; a lookup of a key that is not in the table   *)
(* yields `undefined` (NoMapping).                                         *)
(***************************************************************************)
NoMapping == [status |-> 0, message |-> ""]
Mapping(st, msg) == [status |-> st, message |-> msg]

FIREBASE_ERROR_CODES ==
    [ k \in { "auth/user-not-found", "auth/email-already-exists", "auth/invalid-email",
              "auth/weak-password", "auth/user-disabled", "auth/too-many-requests",
              "auth/operation-not-allowed", "permission-denied", "not-found",
              "already-exists", "failed-precondition", "out-of-range", "unimplemented",
              "internal", "unavailable", "deadline-exceeded", "unauthenticated" } |->
        CASE k = "auth/user-not-found" -> Mapping(404, "User not found")
          [] k = "auth/email-already-exists" -> Mapping(409, "Email already exists")
          [] k = "auth/invalid-email" -> Mapping(400, "Invalid email format")
          [] k = "auth/weak-password" -> Mapping(400, "Password is too weak")
          [] k = "auth/user-disabled" -> Mapping(403, "User account is disabled")
          [] k = "auth/too-many-requests" -> Mapping(429, "Too many requests")
          [] k = "auth/operation-not-allowed" -> Mapping(403, "Operation not allowed")
          [] k = "permission-denied" -> Mapping(403, "Permission denied")
          [] k = "not-found" -> Mapping(404, "Document not found")
          [] k = "already-exists" -> Mapping(409, "Document already exists")
          [] k = "failed-precondition" -> Mapping(412, "Failed precondition")
          [] k = "out-of-range" -> Mapping(400, "Value out of range")
          [] k = "unimplemented" -> Mapping(501, "Operation not implemented")
          [] k = "internal" -> Mapping(500, "Internal server error")
          [] k = "unavailable" -> Mapping(503, "Service temporarily unavailable")
          [] k = "deadline-exceeded" -> Mapping(504, "Request timeout")
          [] k = "unauthenticated" -> Mapping(401, "Authentication required") ]

jwtErrors ==
    [ k \in { "JsonWebTokenError", "TokenExpiredError", "NotBeforeError" } |->
        CASE k = "JsonWebTokenError" -> Mapping(401, "Invalid token")
          [] k = "TokenExpiredError" -> Mapping(401, "Token expired")
          [] k = "NotBeforeError" -> Mapping(401, "Token not active yet") ]

multerErrors ==
    [ k \in { "LIMIT_FILE_SIZE", "LIMIT_FILE_COUNT", "LIMIT_FIELD_KEY",
              "LIMIT_FIELD_VALUE", "LIMIT_FIELD_COUNT", "LIMIT_UNEXPECTED_FILE" } |->
        CASE k = "LIMIT_FILE_SIZE" -> Mapping(413, "File too large")
          [] k = "LIMIT_FILE_COUNT" -> Mapping(413, "Too many files")
          [] k = "LIMIT_FIELD_KEY" -> Mapping(400, "Field name too long")
          [] k = "LIMIT_FIELD_VALUE" -> Mapping(400, "Field value too long")
          [] k = "LIMIT_FIELD_COUNT" -> Mapping(400, "Too many fields")
          [] k = "LIMIT_UNEXPECTED_FILE" -> Mapping(400, "Unexpected file field") ]

\* The decimal text of the numbers the model uses as object keys.
NumText(k) ==
    CASE k = 11000 -> "11000"
      [] k = 11001 -> "11001"
      [] k = 5 -> "5"
      [] OTHER -> "0"

\* The property key a value is converted to by table[value].
KeyOf(v) ==
    CASE v.t = "string" -> v.s
      [] v.t = "number" -> NumText(v.n)
      [] v.t = "null" -> "null"
      [] OTHER -> "undefined"

\* table[value]: the entry, or NoMapping when the key is absent.
Lookup(table, v) == IF KeyOf(v) \in DOMAIN table THEN table[KeyOf(v)] ELSE NoMapping


(***************************************************************************)
(* A fault is the value handed to errorHandler:                            *)
(*   [isOperational, name, code, infoCode, message, arr, statusCode,       *)
(*    details, stack]                                                      *)
(* with infoCode standing for error.errorInfo?.code and arr for the result *)
(* of error.array() (Undef when the fault has no array method).            *)
(***************************************************************************)

\* formatFirebaseError (errorHandler.js:43-63)
formatFirebaseError(error) ==
    LET errorCode == OrElse(error.code, error.infoCode)
        errorMapping == Lookup(FIREBASE_ERROR_CODES, errorCode)
    IN  IF errorMapping # NoMapping
        THEN APIError(Str(errorMapping.message), Num(errorMapping.status),
                      errorCode, error.message)
        ELSE APIError(OrElse(error.message, Str("Firebase operation failed")),
                      Num(500),
                      OrElse(errorCode, Str("firebase-error")),
                      error.stack)

\* The mapping of the field errors that reads the field name from `param` only.
MapFieldErrorsParamOnly(errors) ==
    [ i \in 1..Len(errors) |->
        [ field |-> errors[i].param,
          message |-> errors[i].msg,
          value |-> errors[i].value ] ]

\* errors.map(err => ({ field: err.param || err.path, message: err.msg, value: err.value }))
MapFieldErrors(errors) ==
    [ i \in 1..Len(errors) |->
        [ field |-> OrElse(errors[i].param, errors[i].path),
          message |-> errors[i].msg,
          value |-> errors[i].value ] ]

\* formatValidationError (errorHandler.js:68-91)
formatValidationError(error) ==
    IF Truthy(error.arr)
    THEN APIError(Str("Validation failed"), Num(400), Str("validation-error"),
                  Obj(<< [errors |-> MapFieldErrors(error.arr.l)] >>))
    ELSE APIError(OrElse(error.message, Str("Validation failed")), Num(400),
                  Str("validation-error"), Undef)

\* formatMongoError (errorHandler.js:96-109); `switch` compares with ===
formatMongoError(error) ==
    CASE error.code = Num(11000) ->
            APIError(Str("Duplicate field value"), Num(409), Str("duplicate-key"), Undef)
      [] error.code = Num(11001) ->
            APIError(Str("Duplicate key error"), Num(409), Str("duplicate-key"), Undef)
      [] OTHER ->
            APIError(OrElse(error.message, Str("Database operation failed")), Num(500),
                     Str("database-error"), Undef)

\* formatJWTError (errorHandler.js:114-131)
formatJWTError(error) ==
    LET errorMapping == Lookup(jwtErrors, error.name)
    IN  IF errorMapping # NoMapping
        THEN APIError(Str(errorMapping.message), Num(errorMapping.status),
                      Str("jwt-error"), Undef)
        ELSE APIError(Str("Authentication failed"), Num(401), Str("auth-error"), Undef)

\* formatMulterError (errorHandler.js:136-156)
formatMulterError(error) ==
    LET errorMapping == Lookup(multerErrors, error.code)
    IN  IF errorMapping # NoMapping
        THEN APIError(Str(errorMapping.message), Num(errorMapping.status),
                      Str("file-upload-error"), Undef)
        ELSE APIError(Str("File upload failed"), Num(400), Str("file-upload-error"), Undef)

(***************************************************************************)
(* The dispatch of errorHandler (errorHandler.js:170-195): the branch the  *)
(* if / else-if chain takes, in the order the conditions are evaluated.    *)
(* "throws" is the outcome of a condition that calls a string method on a  *)
(* value that has none (a TypeError raised inside errorHandler).           *)
(***************************************************************************)
Dispatch(error) ==
    IF error.isOperational THEN "operational"
    \* error.code && error.code.startsWith('auth/')
    ELSE IF Truthy(error.code) /\ error.code.t # "string" THEN "throws"
    ELSE IF Truthy(error.code) /\ StartsWith(error.code.s, "auth/") THEN "firebase-auth"
    \* error.name === 'FirebaseError' || error.code
    ELSE IF IsStr(error.name, "FirebaseError") \/ Truthy(error.code) THEN "firebase"
    \* error.name === 'ValidationError' || error.array
    ELSE IF IsStr(error.name, "ValidationError") \/ Truthy(error.arr) THEN "validation"
    ELSE IF IsStr(error.name, "MongoError") \/ IsStr(error.name, "MongoServerError") THEN "mongo"
    \* error.name && error.name.includes('JsonWebToken')
    ELSE IF Truthy(error.name) /\ error.name.t # "string" THEN "throws"
    ELSE IF Truthy(error.name) /\ Includes(error.name.s, "JsonWebToken") THEN "jwt"
    \* error.code && error.code.startsWith('LIMIT_')
    ELSE IF Truthy(error.code) /\ StartsWith(error.code.s, "LIMIT_") THEN "multer"
    ELSE IF IsStr(error.name, "CastError") THEN "cast"
    \* error.name === 'SyntaxError' && error.message.includes('JSON')
    ELSE IF IsStr(error.name, "SyntaxError") /\ error.message.t # "string" THEN "throws"
    ELSE IF IsStr(error.name, "SyntaxError") /\ Includes(error.message.s, "JSON") THEN "json"
    ELSE "generic"

\* The dispatch result with a fallback that keeps the fault's own message in
\* every environment.
FormatKeepingMessage(error, nodeEnv) ==
    LET branch == Dispatch(error)
    IN  CASE branch = "operational" ->
                [ name |-> error.name, message |-> error.message,
                  statusCode |-> error.statusCode, code |-> error.code,
                  details |-> error.details, isOperational |-> TRUE ]
          [] branch \in {"firebase-auth", "firebase"} -> formatFirebaseError(error)
          [] branch = "validation" -> formatValidationError(error)
          [] branch = "mongo" -> formatMongoError(error)
          [] branch = "jwt" -> formatJWTError(error)
          [] branch = "multer" -> formatMulterError(error)
          [] branch = "cast" -> APIError(Str("Invalid ID format"), Num(400), Str("invalid-id"), Undef)
          [] branch = "json" -> APIError(Str("Invalid JSON format"), Num(400), Str("invalid-json"), Undef)
          [] OTHER ->
                APIError(error.message, Num(500), Str("internal-server-error"),
                         IF nodeEnv # "production" THEN error.stack ELSE Undef)

\* The formattedError of errorHandler after the dispatch (errorHandler.js:162-196).
Format(error, nodeEnv) ==
    LET branch == Dispatch(error)
    IN  CASE branch = "operational" ->
                [ name |-> error.name, message |-> error.message,
                  statusCode |-> error.statusCode, code |-> error.code,
                  details |-> error.details, isOperational |-> TRUE ]
          [] branch \in {"firebase-auth", "firebase"} -> formatFirebaseError(error)
          [] branch = "validation" -> formatValidationError(error)
          [] branch = "mongo" -> formatMongoError(error)
          [] branch = "jwt" -> formatJWTError(error)
          [] branch = "multer" -> formatMulterError(error)
          [] branch = "cast" -> APIError(Str("Invalid ID format"), Num(400), Str("invalid-id"), Undef)
          [] branch = "json" -> APIError(Str("Invalid JSON format"), Num(400), Str("invalid-json"), Undef)
          [] OTHER ->
                APIError(IF nodeEnv = "production" THEN Str("Internal server error")
                                                   ELSE error.message,
                         Num(500),
                         Str("internal-server-error"),
                         IF nodeEnv # "production" THEN error.stack ELSE Undef)

\* formattedError.statusCode >= 500 (false for a value that is no number)
AtLeast500(v) == v.t = "number" /\ v.n >= 500

(***************************************************************************)
(* errorHandler (errorHandler.js:161-246) as a function of the fault, of   *)
(* res.headersSent, of NODE_ENV and of the request.  The result says how   *)
(* the call ended: "next" (headers already sent: next(error)), "threw" (an *)
(* exception left errorHandler, nothing written), or "sent" with the log   *)
(* entry and the response written.                                         *)
(***************************************************************************)
NoLog == [level |-> "none", message |-> Undef, statusCode |-> Undef, errorCode |-> Undef]
Body(success, error, data, details) ==
    [success |-> success, error |-> error, data |-> data, details |-> details]
NoBody == Body(Undef, Undef, Undef, Undef)
NoResponse == [status |-> 0, body |-> NoBody, writer |-> "none"]

\* errorHandler with the details added to the body in every environment.
errorHandlerShowingDetails(error, headersSent, nodeEnv, req) ==
    IF headersSent
    THEN [outcome |-> "next", log |-> NoLog, response |-> NoResponse]
    ELSE IF Dispatch(error) = "throws"
    THEN [outcome |-> "threw", log |-> NoLog, response |-> NoResponse]
    ELSE
      LET formattedError == Format(error, nodeEnv)
          status == OrElse(formattedError.statusCode, Num(500))
          log == [ level |-> IF AtLeast500(formattedError.statusCode) THEN "error" ELSE "warn",
                   message |-> formattedError.message,
                   statusCode |-> status,
                   errorCode |-> formattedError.code ]
          body ==
            Body(Undef,
                 Obj(<< [ message |-> formattedError.message,
                                 code |-> formattedError.code,
                                 statusCode |-> status,
                                 timestamp |-> Str("now"),
                                 path |-> req.originalUrl,
                                 method |-> req.method,
                                 details |-> IF Truthy(formattedError.details)
                                             THEN formattedError.details ELSE Undef,
                                 stack |-> IF nodeEnv # "production" /\ Truthy(error.stack)
                                           THEN error.stack ELSE Undef ] >>),
                 Undef, Undef)
      IN  [ outcome |-> "sent",
            log |-> log,
            response |-> [status |-> status.n, body |-> body, writer |-> "errorHandler"] ]

errorHandler(error, headersSent, nodeEnv, req) ==
    IF headersSent
    THEN [outcome |-> "next", log |-> NoLog, response |-> NoResponse]
    ELSE IF Dispatch(error) = "throws"
    THEN [outcome |-> "threw", log |-> NoLog, response |-> NoResponse]
    ELSE
      LET formattedError == Format(error, nodeEnv)
          status == OrElse(formattedError.statusCode, Num(500))
          log == [ level |-> IF AtLeast500(formattedError.statusCode) THEN "error" ELSE "warn",
                   message |-> formattedError.message,
                   statusCode |-> status,
                   errorCode |-> formattedError.code ]
          body ==
            Body(Undef,
                 Obj(<< [ message |-> formattedError.message,
                                 code |-> formattedError.code,
                                 statusCode |-> status,
                                 timestamp |-> Str("now"),
                                 path |-> req.originalUrl,
                                 method |-> req.method,
                                 details |-> IF nodeEnv # "production" /\ Truthy(formattedError.details)
                                             THEN formattedError.details ELSE Undef,
                                 stack |-> IF nodeEnv # "production" /\ Truthy(error.stack)
                                           THEN error.stack ELSE Undef ] >>),
                 Undef, Undef)
      IN  [ outcome |-> "sent",
            log |-> log,
            response |-> [status |-> status.n, body |-> body, writer |-> "errorHandler"] ]


(***************************************************************************)
(* The state: the document store behind the backend SDK, the requests in   *)
(* flight in the document routes, the socket server's rooms, and the one   *)
(* call of errorHandler that ErrorSpec examines.                           *)
(***************************************************************************)
VARIABLES
    nodeEnv,      \* process.env.NODE_ENV
    io,           \* app.get('io'): TRUE once setupSocketIO has registered the server
    store,        \* store[collection][documentId]: the document body, or Undef
    req,          \* req[r]: method, params and body of request r
    pc,           \* pc[r]: where the handler of request r stands
    docRef,       \* docRef[r]: the id of the document reference of request r
    documentData, \* documentData[r]: existingDoc.data() kept by the delete route
    readDoc,      \* readDoc[r]: newDoc.data() / updatedDoc.data() of the follow-up read
    outcome,      \* outcome[r]: how the backend write and the emit of request r ended
    resp,         \* resp[r]: the response written for request r
    emitted,      \* the events handed to io.to(room).emit, in order
    conn,         \* conn[s]: "new", "open" or "closed"
    rooms,        \* the adapter's room membership: pairs <<socket, room>>
    sent,         \* sent[s]: the events written to socket s, in order
    lastMsg,      \* lastMsg[s][name]: the last subscription message of s about name
                  \* (a history of the messages, recorded in SocketSpec only)
    fault,        \* the fault handed to errorHandler
    headersSent,  \* res.headersSent at that call
    ehResult,     \* what that call of errorHandler did
    removed,      \* removed[r]: the body the delete of request r removed from the
                  \* store (a history of the write, kept for the properties)
    raised,       \* raised[r]: the 4xx APIError thrown inside the handler of request r
    apps,         \* getApps().length: the apps registered with the backend SDK
    app,          \* config/firebase.js `let app`: TRUE when not null
    db,           \* config/firebase.js `let db`: TRUE when not null
    storage,      \* config/firebase.js `let storage`: TRUE when not null
    auth,         \* config/firebase.js `let auth`: TRUE when not null
    lastInit,     \* how the most recent initializeFirebase() ended
    closedSince,  \* TRUE when closeFirebase() has completed since then
    closing,      \* "no", or how the pending app.delete() of closeFirebase() treats
                  \* the SDK's registry: "early" (removed at the call) or "late"
    calls         \* the calls of config/firebase.js that have returned, with their
                  \* results, in order (a history, recorded in FirebaseSpec only)

reqVars == <<req, pc, docRef, documentData, readDoc, outcome, resp>>
sockVars == <<conn, rooms, lastMsg>>
ehVars == <<fault, headersSent, ehResult>>
fbVars == <<apps, app, db, storage, auth, lastInit, closedSince, closing, calls>>
vars == <<nodeEnv, io, store, reqVars, emitted, sockVars, sent, ehVars, removed, raised, fbVars>>

MaxReqs == 2
MaxSockets == 2

Reqs == 1..MaxReqs
Sockets == 1..MaxSockets
Collections == {"users", "posts"}
ClientIds == {"d1"}
Methods == {"GET", "POST", "PUT", "DELETE"}

\* The id the backend generates for collection.add() in request r.
AutoId(r) == "auto" \o ToString(r)
DocIds == ClientIds \cup {AutoId(r) : r \in Reqs}

\* Request bodies: the `data` object of request r, and a `data` that is no object.
DataOf(r) == Obj(<< [label |-> "data" \o ToString(r)] >>)
NotAnObject == Str("not-an-object")

\* { ...data, createdAt: new Date(), updatedAt: new Date() } (firestore.js:218-222)
\* and { ...data, updatedAt: new Date() } (firestore.js:308-311)
CreatedDocument(data) == Obj(data.l \o << [createdAt |-> "now", updatedAt |-> "now"] >>)
UpdatedDocument(data) == Obj(data.l \o << [updatedAt |-> "now"] >>)

\* A document that is in the store before any request.
SeedDocument == CreatedDocument(Obj(<< [label |-> "seed"] >>))

\* `collection:${name}` (server.js:181,186; firestore.js:253,321,381)
RoomOf(name) == "collection:" \o name

NoReq == [method |-> "none", collectionId |-> "", id |-> Undef, data |-> Undef]
NoOutcome == [write |-> "none", emit |-> "none"]
NoFault ==
    [ isOperational |-> FALSE, name |-> Undef, code |-> Undef, infoCode |-> Undef,
      message |-> Undef, arr |-> Undef, statusCode |-> Undef, details |-> Undef,
      stack |-> Undef ]
NoResult == [outcome |-> "none", log |-> NoLog, response |-> NoResponse]

\* No APIError was thrown inside the handler.
NoRaise == [status |-> 0, code |-> ""]

\* config/firebase.js once the server's initialize() has awaited
\* initializeFirebase() (server.js:47): one SDK app, the four instances set.
Initialized ==
    /\ apps = 1
    /\ app = TRUE /\ db = TRUE /\ storage = TRUE /\ auth = TRUE
    /\ lastInit = "ok"
    /\ closedSince = FALSE
    /\ closing = "no"
    /\ calls = <<>>

\* An APIError as the value that is thrown: an Error object, which has a stack.
Thrown(apiError) ==
    [ isOperational |-> apiError.isOperational, name |-> apiError.name,
      code |-> apiError.code, infoCode |-> Undef, message |-> apiError.message,
      arr |-> Undef, statusCode |-> apiError.statusCode, details |-> apiError.details,
      stack |-> Str("stack") ]

\* req.originalUrl and req.method as errorHandler reads them
HttpReq(r) ==
    [ method |-> Str(req[r].method),
      originalUrl |-> Str("/api/v1/firestore/collections/" \o req[r].collectionId \o "/documents") ]

\* The server as deployed (app.yaml:5 sets NODE_ENV to production), before any
\* request or connection.
Init ==
    /\ nodeEnv = "production"
    /\ io = TRUE
    /\ store = [c \in Collections |-> [d \in DocIds |->
                    IF c = "users" /\ d = "d1" THEN SeedDocument ELSE Undef]]
    /\ req = [r \in Reqs |-> NoReq]
    /\ pc = [r \in Reqs |-> "idle"]
    /\ docRef = [r \in Reqs |-> ""]
    /\ documentData = [r \in Reqs |-> Undef]
    /\ readDoc = [r \in Reqs |-> Undef]
    /\ outcome = [r \in Reqs |-> NoOutcome]
    /\ resp = [r \in Reqs |-> NoResponse]
    /\ emitted = <<>>
    /\ conn = [s \in Sockets |-> "new"]
    /\ rooms = {}
    /\ sent = [s \in Sockets |-> <<>>]
    /\ lastMsg = [s \in Sockets |-> [c \in Collections |-> "none"]]
    /\ fault = NoFault
    /\ headersSent = FALSE
    /\ ehResult = NoResult
    /\ removed = [r \in Reqs |-> Undef]
    /\ raised = [r \in Reqs |-> NoRaise]
    /\ Initialized


(***************************************************************************)
(* The document routes of routes/firestore.js.  A handler runs to its next *)
(* `await` in one step; each backend call (get, set / add / delete, the    *)
(* follow-up get) resolves or rejects in a step of its own, so the         *)
(* handlers of different requests interleave at those points.              *)
(***************************************************************************)

\* validationResult(req).isEmpty() for the chains of the document routes:
\* body('data').isObject() on POST and PUT (firestore.js:206, 281).
ValidationPasses(method, data) ==
    IF method \in {"POST", "PUT"} THEN data.t = "object" ELSE TRUE

\* validateRequest's own response (firestore.js:12-21)
ValidationFailedResponse ==
    [ status |-> 400,
      body |-> Body(Undef, Str("Validation failed"), Undef,
                    Obj(<< [msg |-> Str("Document data must be an object")] >>)),
      writer |-> "validateRequest" ]

\* The inline 404 of the get / put / delete routes (firestore.js:164, 296, 362)
NotFoundResponse(r) ==
    [ status |-> 404,
      body |-> Body(Bool(FALSE),
                    Obj(<< [ message |-> Str("Document not found"),
                             code |-> Str("document-not-found"),
                             collection |-> Str(req[r].collectionId),
                             documentId |-> Str(docRef[r]) ] >>),
                    Undef, Undef),
      writer |-> "route" ]

\* The inline 409 of the create route (firestore.js:231-239)
ExistsResponse(r) ==
    [ status |-> 409,
      body |-> Body(Bool(FALSE),
                    Obj(<< [ message |-> Str("Document already exists"),
                             code |-> Str("document-exists"),
                             collection |-> Str(req[r].collectionId),
                             documentId |-> Str(docRef[r]) ] >>),
                    Undef, Undef),
      writer |-> "route" ]

\* The catch-all route of server.js:157-171
EndpointNotFoundResponse ==
    [ status |-> 404,
      body |-> Body(Undef, Str("Endpoint not found"), Undef, Undef),
      writer |-> "catchAll" ]

\* res.json / res.status(201).json of a route that succeeded
\* (firestore.js:190, 260, 328, 388)
SuccessResponse(r, data) ==
    [ status |-> IF req[r].method = "POST" THEN 201 ELSE 200,
      body |-> Body(Bool(TRUE), Undef,
                    Obj(<< [ id |-> Str(docRef[r]),
                             data |-> data,
                             collection |-> Str(req[r].collectionId) ] >>),
                    Undef),
      writer |-> "route" ]

\* The code of the createError in the catch block of each route
\* (firestore.js:196, 270, 338, 399)
CatchCode(method) ==
    CASE method = "GET" -> "firestore-get-error"
      [] method = "POST" -> "firestore-create-error"
      [] method = "PUT" -> "firestore-update-error"
      [] method = "DELETE" -> "firestore-delete-error"

\* The message of that createError
CatchMessage(r) ==
    LET c == req[r].collectionId
        d == docRef[r]
    IN  CASE req[r].method = "GET" ->
               "Failed to get document " \o d \o " from collection " \o c
          [] req[r].method = "POST" ->
               "Failed to create document in collection " \o c
          [] req[r].method = "PUT" ->
               "Failed to update document " \o d \o " in collection " \o c
          [] req[r].method = "DELETE" ->
               "Failed to delete document " \o d \o " from collection " \o c

\* catch (error) { throw createError(message, 500, code, error.message) }, carried by
\* asyncHandler's catch(next) to errorHandler (errorHandler.js:263-267).
CatchResponse(r, cause) ==
    LET thrown == Thrown(createError(Str(CatchMessage(r)), Num(500),
                                     Str(CatchCode(req[r].method)), cause))
        res == errorHandler(thrown, FALSE, nodeEnv, HttpReq(r))
    IN  IF res.outcome = "sent"
        THEN res.response
        ELSE [status |-> 500, body |-> NoBody, writer |-> "express"]

\* A request arrives: validateRequest, then the handler up to its first await.
\* Requests are numbered in the order of their arrival.
Receive(r, method, collectionId, id, data) ==
    /\ pc[r] = "idle"
    /\ \A q \in Reqs : q < r => pc[q] # "idle"
    /\ req' = [req EXCEPT ![r] = [method |-> method, collectionId |-> collectionId,
                                  id |-> id, data |-> data]]
    /\ docRef' = [docRef EXCEPT ![r] = IF Truthy(id) THEN id.s ELSE ""]
    /\ IF ValidationPasses(method, data)
       THEN /\ pc' = [pc EXCEPT ![r] = IF method = "POST" /\ ~Truthy(id) THEN "write" ELSE "check"]
            /\ resp' = resp
       ELSE /\ pc' = [pc EXCEPT ![r] = "done"]
            /\ resp' = [resp EXCEPT ![r] = ValidationFailedResponse]
    /\ UNCHANGED <<fbVars, raised, removed, nodeEnv, io, store, documentData, readDoc, outcome, emitted,
                   sockVars, sent, ehVars>>

\* A request for a path no router handles reaches the catch-all route.
UnknownEndpoint(r) ==
    /\ pc[r] = "idle"
    /\ \A q \in Reqs : q < r => pc[q] # "idle"
    /\ req' = [req EXCEPT ![r] = [NoReq EXCEPT !.method = "GET"]]
    /\ pc' = [pc EXCEPT ![r] = "done"]
    /\ resp' = [resp EXCEPT ![r] = EndpointNotFoundResponse]
    /\ UNCHANGED <<fbVars, raised, removed, nodeEnv, io, store, docRef, documentData, readDoc, outcome, emitted,
                   sockVars, sent, ehVars>>

\* doc.data() of the snapshot docRef.get() resolves to: the body stored under the
\* id, `undefined` (doc.exists false) when there is none.
DocAt(c, d) == IF d \in DocIds THEN store[c][d] ELSE Undef

\* What the handler does with the result of `await docRef.get()` (the existence
\* check): "respond" (GET found), "reject" (the inline 404 / 409) or "write".
NextAfterCheck(method, exists) ==
    CASE method = "GET" -> IF exists THEN "respond" ELSE "reject"
      [] method = "POST" -> IF exists THEN "reject" ELSE "write"
      [] method \in {"PUT", "DELETE"} -> IF exists THEN "write" ELSE "reject"

\* `await docRef.get()` of the existence check resolves (ok) or rejects.
Check(r, ok) ==
    /\ pc[r] = "check"
    /\ LET doc == DocAt(req[r].collectionId, docRef[r])
           next == NextAfterCheck(req[r].method, Truthy(doc))
       IN  IF ~ok
           THEN /\ pc' = [pc EXCEPT ![r] = "done"]
                /\ resp' = [resp EXCEPT ![r] = CatchResponse(r, Str("get failed"))]
                /\ UNCHANGED documentData
           ELSE /\ pc' = [pc EXCEPT ![r] = IF next = "write" THEN "write" ELSE "done"]
                /\ resp' = [resp EXCEPT ![r] =
                              CASE next = "write" -> resp[r]
                                [] next = "respond" -> SuccessResponse(r, doc)
                                [] next = "reject" ->
                                     IF req[r].method = "POST" THEN ExistsResponse(r)
                                                               ELSE NotFoundResponse(r)]
                /\ documentData' = [documentData EXCEPT ![r] =
                                      IF req[r].method = "DELETE" /\ next = "write"
                                      THEN doc ELSE documentData[r]]
    /\ UNCHANGED <<fbVars, raised, removed, nodeEnv, io, store, req, docRef, readDoc, outcome, emitted,
                   sockVars, sent, ehVars>>

\* Mutant of NextAfterWrite: the rejection of the write is swallowed and the
\* handler carries on as after an acknowledged write.
NextAfterWriteIgnoringRejection(method, ok) ==
    IF method = "DELETE" THEN "emit" ELSE "read"

\* Where the handler goes when the write resolves (ok) or rejects: the create and
\* update routes read the document back, the delete route goes on to the emit.
NextAfterWrite(method, ok) ==
    IF ~ok THEN "fail"
    ELSE IF method = "DELETE" THEN "emit" ELSE "read"

\* `await docRef.set(..)`, `await collection.add(..)` or `await docRef.delete()`
\* resolves (ok: the backend has applied and acknowledged the write) or rejects.
Write(r, ok) ==
    /\ pc[r] = "write"
    /\ LET method == req[r].method
           c == req[r].collectionId
           id == IF docRef[r] = "" THEN AutoId(r) ELSE docRef[r]
           body == CASE method = "POST" -> CreatedDocument(req[r].data)
                     [] method = "PUT" -> UpdatedDocument(req[r].data)
                     [] method = "DELETE" -> Undef
           next == NextAfterWrite(method, ok)
       IN  /\ store' = IF ok THEN [store EXCEPT ![c][id] = body] ELSE store
           /\ docRef' = [docRef EXCEPT ![r] = IF ok THEN id ELSE docRef[r]]
           /\ outcome' = [outcome EXCEPT ![r].write = IF ok THEN "acked" ELSE "failed"]
           /\ removed' = [removed EXCEPT ![r] =
                             IF ok /\ method = "DELETE" THEN DocAt(c, id) ELSE removed[r]]
           /\ pc' = [pc EXCEPT ![r] = IF next = "fail" THEN "done" ELSE next]
           /\ resp' = [resp EXCEPT ![r] = IF next = "fail"
                                          THEN CatchResponse(r, Str("write failed"))
                                          ELSE resp[r]]
    /\ UNCHANGED <<fbVars, raised, nodeEnv, io, req, documentData, readDoc, emitted,
                   sockVars, sent, ehVars>>

\* `const newDoc = await docRef.get()` after the write (firestore.js:247, 315)
\* resolves (ok) or rejects.
Read(r, ok) ==
    /\ pc[r] = "read"
    /\ IF ok
       THEN /\ readDoc' = [readDoc EXCEPT ![r] = DocAt(req[r].collectionId, docRef[r])]
            /\ pc' = [pc EXCEPT ![r] = "emit"]
            /\ resp' = resp
       ELSE /\ readDoc' = readDoc
            /\ pc' = [pc EXCEPT ![r] = "done"]
            /\ resp' = [resp EXCEPT ![r] = CatchResponse(r, Str("get failed"))]
    /\ UNCHANGED <<fbVars, raised, removed, nodeEnv, io, store, req, docRef, documentData, outcome, emitted,
                   sockVars, sent, ehVars>>


\* Every route emitting the event name of the create route.
EventNameCreatedOnly(method) == "document-created"

\* The name of the event each route emits (firestore.js:253, 321, 381)
EventName(method) ==
    CASE method = "POST" -> "document-created"
      [] method = "PUT" -> "document-updated"
      [] method = "DELETE" -> "document-deleted"

\* Mutant of Recipients: io.emit, a broadcast to every open socket.
RecipientsEveryone(room) == {s \in Sockets : conn[s] = "open"}

\* io.to(room): the sockets that are in the room when emit is called.
Recipients(room) == {s \in Sockets : <<s, room>> \in rooms}

\* The end of the handler with the response sent first and the emit left for
\* later: the request is answered while no event has been handed over.
EmitAfterResponding(r, ok) ==
    /\ pc[r] = "emit"
    /\ LET data == IF req[r].method = "DELETE" THEN documentData[r] ELSE readDoc[r]
       IN  resp' = [resp EXCEPT ![r] = SuccessResponse(r, data)]
    /\ pc' = [pc EXCEPT ![r] = "done"]
    /\ UNCHANGED <<fbVars, raised, removed, nodeEnv, io, store, req, docRef, documentData,
                   readDoc, outcome, emitted, sockVars, sent, ehVars>>

\* The rest of the handler after its last await, which runs without interruption:
\* `if (io) io.to(room).emit(event, payload)` and then the success response.  The
\* emit call returns (ok) after writing the event to every socket of the room, or
\* throws before writing to any, and the route's catch block then takes over.
Emit(r, ok) ==
    /\ pc[r] = "emit"
    /\ LET method == req[r].method
           c == req[r].collectionId
           data == IF method = "DELETE" THEN documentData[r] ELSE readDoc[r]
           to == Recipients(RoomOf(c))
           ev == [ name |-> EventName(method),
                   room |-> RoomOf(c),
                   payload |-> [collection |-> c, documentId |-> docRef[r], data |-> data],
                   req |-> r,
                   members |-> {s \in Sockets : <<s, RoomOf(c)>> \in rooms} ]
       IN  IF io /\ ~ok
           THEN /\ outcome' = [outcome EXCEPT ![r].emit = "threw"]
                /\ resp' = [resp EXCEPT ![r] = CatchResponse(r, Str("emit failed"))]
                /\ UNCHANGED <<emitted, sent>>
           ELSE /\ outcome' = [outcome EXCEPT ![r].emit = IF io THEN "ok" ELSE "none"]
                /\ emitted' = IF io THEN Append(emitted, ev) ELSE emitted
                /\ sent' = IF io
                           THEN [s \in Sockets |->
                                   IF s \in to THEN Append(sent[s], ev) ELSE sent[s]]
                           ELSE sent
                /\ resp' = [resp EXCEPT ![r] = SuccessResponse(r, data)]
    /\ pc' = [pc EXCEPT ![r] = "done"]
    /\ UNCHANGED <<fbVars, raised, removed, nodeEnv, io, store, req, docRef, documentData, readDoc,
                   sockVars, ehVars>>

(***************************************************************************)
(* The socket server (server.js setupSocketIO).  The handlers call         *)
(* socket.join and socket.leave; the membership itself, and its clean-up   *)
(* when a socket closes, are kept by the socket server's adapter.          *)
(***************************************************************************)

\* io.on('connection', ...) (server.js:175-176)
Connect(s) ==
    /\ conn[s] = "new"
    /\ conn' = [conn EXCEPT ![s] = "open"]
    /\ UNCHANGED <<fbVars, raised, removed, nodeEnv, io, store, reqVars, emitted, rooms, lastMsg, sent, ehVars>>

\* Mutant of Leave: the socket leaves a room of another name, so the room set
\* stays as it is.
LeaveNothing(s, room) == rooms

\* socket.join(room) and socket.leave(room) on the room set
Join(s, room) == rooms \cup {<<s, room>>}
Leave(s, room) == rooms \ {<<s, room>>}

\* Mutant of Subscribe: the handler also replays to the socket the events that
\* were emitted to the room before it joined.
SubscribeWithReplay(s, name) ==
    /\ conn[s] = "open"
    /\ rooms' = rooms \cup {<<s, RoomOf(name)>>}
    /\ sent' = [sent EXCEPT ![s] =
                  @ \o SelectSeq(emitted, LAMBDA e : e.room = RoomOf(name))]
    /\ UNCHANGED <<fbVars, raised, removed, nodeEnv, io, store, reqVars, emitted, conn, ehVars>>

\* socket.on('subscribe-to-collection', ...) (server.js:179-182)
Subscribe(s, name) ==
    /\ conn[s] = "open"
    /\ rooms' = Join(s, RoomOf(name))
    /\ UNCHANGED <<fbVars, raised, removed, nodeEnv, io, store, reqVars, emitted, conn, sent, ehVars>>

\* socket.on('unsubscribe-from-collection', ...) (server.js:184-187)
Unsubscribe(s, name) ==
    /\ conn[s] = "open"
    /\ rooms' = Leave(s, RoomOf(name))
    /\ UNCHANGED <<fbVars, raised, removed, nodeEnv, io, store, reqVars, emitted, conn, sent, ehVars>>

\* The rooms left once socket s has closed: the adapter removes the socket from
\* every room before the 'disconnect' handler runs.
RoomsAfterClose(s) == {p \in rooms : p[1] # s}

\* Mutant of Disconnect: the socket is marked closed while its rooms are kept.
DisconnectKeepingRooms(s) ==
    /\ conn[s] \in {"open", "closed"}
    /\ conn' = [conn EXCEPT ![s] = "closed"]
    /\ UNCHANGED <<fbVars, raised, removed, nodeEnv, io, store, reqVars, emitted, rooms, lastMsg, sent, ehVars>>

\* The close of socket s is handled: socket.on('disconnect', ...) only logs
\* (server.js:189-191).  Handling the close of a socket that is closed already
\* changes nothing.
Disconnect(s) ==
    /\ conn[s] \in {"open", "closed"}
    /\ conn' = [conn EXCEPT ![s] = "closed"]
    /\ rooms' = IF conn[s] = "open" THEN RoomsAfterClose(s) ELSE rooms
    /\ UNCHANGED <<fbVars, raised, removed, nodeEnv, io, store, reqVars, emitted, lastMsg, sent, ehVars>>

\* The inputs a request can carry on each route.
IdsOf(method) == IF method = "POST" THEN {Undef} \cup {Str(d) : d \in ClientIds}
                                    ELSE {Str(d) : d \in ClientIds}
DatasOf(r, method) == IF method \in {"POST", "PUT"} THEN {DataOf(r), NotAnObject}
                                                    ELSE {Undef}

Next ==
    \/ \E r \in Reqs, method \in Methods, c \in Collections :
         \E id \in IdsOf(method), data \in DatasOf(r, method) :
            Receive(r, method, c, id, data)
    \/ \E r \in Reqs : UnknownEndpoint(r)
    \/ \E r \in Reqs, ok \in BOOLEAN : Check(r, ok)
    \/ \E r \in Reqs, ok \in BOOLEAN : Write(r, ok)
    \/ \E r \in Reqs, ok \in BOOLEAN : Read(r, ok)
    \/ \E r \in Reqs, ok \in BOOLEAN : Emit(r, ok)
    \/ \E s \in Sockets : Connect(s)
    \/ \E s \in Sockets, name \in Collections : Subscribe(s, name) /\ UNCHANGED lastMsg
    \/ \E s \in Sockets, name \in Collections : Unsubscribe(s, name) /\ UNCHANGED lastMsg
    \/ \E s \in Sockets : Disconnect(s)

Spec == Init /\ [][Next]_vars

(***************************************************************************)
(* SocketSpec: the socket handlers alone, with the last subscription       *)
(* message of every socket about every collection recorded in lastMsg.     *)
(***************************************************************************)
SocketNext ==
    \/ \E s \in Sockets : Connect(s)
    \/ \E s \in Sockets, name \in Collections :
          Subscribe(s, name) /\ lastMsg' = [lastMsg EXCEPT ![s][name] = "subscribe"]
    \/ \E s \in Sockets, name \in Collections :
          Unsubscribe(s, name) /\ lastMsg' = [lastMsg EXCEPT ![s][name] = "unsubscribe"]
    \/ \E s \in Sockets : Disconnect(s)

SocketSpec == Init /\ [][SocketNext]_vars


(***************************************************************************)
(* EndpointSpec: the other endpoints that write documents or throw 4xx     *)
(* errors of their own: GET /collections/:collectionId/documents and       *)
(* POST /batch of routes/firestore.js, POST /tools/:toolName of            *)
(* routes/mcp.js.  A request of these endpoints is recorded in req[r] with *)
(* the endpoint in `method` ("LIST", "BATCH", or the tool's name).         *)
(***************************************************************************)
MaxOps == 2

\* The operations a batch request can carry: [type, collection, documentId, data].
Operation(type, collection, data) ==
    [type |-> type, collection |-> collection, documentId |-> "d1", data |-> data]

BatchData == Obj(<< [label |-> "batch"] >>)

Operations ==
    { Operation("set", c, d) : c \in Collections, d \in {Undef, BatchData} }
        \cup { Operation("delete", c, Undef) : c \in Collections }
        \cup { Operation("update", "users", BatchData), Operation("merge", "users", BatchData) }

RECURSIVE OperationLists(_)
OperationLists(n) ==
    IF n = 0 THEN {<<>>}
    ELSE LET shorter == OperationLists(n - 1)
         IN  shorter \cup {Append(l, op) : l \in shorter, op \in Operations}

\* The tools of POST /tools/:toolName the model calls, and a name that is no tool.
WriteTools == {"firestore_add_document", "firestore_update_document", "firestore_delete_document"}
ToolNames == WriteTools \cup {"no_such_tool"}

\* The `where` query strings of the list route: absent, a JSON array of
\* conditions, and a text JSON.parse rejects.
WhereClause == "[[\"label\",\"==\",\"seed\"]]"
Wheres == {Undef, Str(WhereClause), Str("label==seed")}

\* JSON.parse(where) returns (TRUE) or throws a SyntaxError (FALSE).
ParsesAsJson(text) == text = WhereClause

\* req.method and req.originalUrl of a request of these endpoints
EndpointReq(r) ==
    CASE req[r].method = "LIST" ->
            [ method |-> Str("GET"),
              originalUrl |-> Str("/api/v1/firestore/collections/" \o req[r].collectionId
                                  \o "/documents") ]
      [] req[r].method = "BATCH" ->
            [method |-> Str("POST"), originalUrl |-> Str("/api/v1/firestore/batch")]
      [] OTHER ->
            [ method |-> Str("POST"),
              originalUrl |-> Str("/api/v1/mcp/tools/" \o req[r].method) ]

\* The outer catch block of a handler: catch (error) { throw createError(message,
\* 500, code, error.message) }, carried by asyncHandler to errorHandler
\* (firestore.js:140-142, 558-560; mcp.js POST /tools catch block).
RethrownResponse(r, message, code, cause) ==
    LET thrown == Thrown(createError(Str(message), Num(500), Str(code), cause))
        res == errorHandler(thrown, FALSE, nodeEnv, EndpointReq(r))
    IN  IF res.outcome = "sent"
        THEN res.response
        ELSE [status |-> 500, body |-> NoBody, writer |-> "express"]

\* validateRequest's response to a batch whose operations fail the chain
\* (firestore.js:491-496, 12-21)
BatchValidationFailedResponse ==
    [ status |-> 400,
      body |-> Body(Undef, Str("Validation failed"), Undef,
                    Obj(<< [msg |-> Str("Operation type must be set, update, or delete")] >>)),
      writer |-> "validateRequest" ]

\* body('operations.*.type').isIn(['set', 'update', 'delete']) and the notEmpty
\* checks of collection and documentId
BatchValidationPasses(operations) ==
    \A i \in 1..Len(operations) :
        /\ operations[i].type \in {"set", "update", "delete"}
        /\ operations[i].collection # ""
        /\ operations[i].documentId # ""

\* The loop over the operations throws at the first set or update without data
\* (firestore.js:511-516, 524-527).
BatchLoopThrows(operations) ==
    \E i \in 1..Len(operations) :
        operations[i].type \in {"set", "update"} /\ ~Truthy(operations[i].data)

\* The message of the error the loop throws: that of the first operation without data.
MissingDataMessage(operations) ==
    LET first == CHOOSE i \in 1..Len(operations) :
                    /\ operations[i].type \in {"set", "update"} /\ ~Truthy(operations[i].data)
                    /\ \A j \in 1..(i - 1) :
                          ~(operations[j].type \in {"set", "update"} /\ ~Truthy(operations[j].data))
    IN  "Data is required for " \o operations[first].type \o " operation"

\* { ...existing, ...data, updatedAt } as docRef.update / batch.update leaves it
MergedDocument(existing, data) == Obj(existing.l \o data.l \o << [updatedAt |-> "now"] >>)

\* The store after one queued operation has been applied.
ApplyOperation(st, op) ==
    [st EXCEPT ![op.collection][op.documentId] =
        CASE op.type = "set" -> UpdatedDocument(op.data)
          [] op.type = "update" -> MergedDocument(st[op.collection][op.documentId], op.data)
          [] op.type = "delete" -> Undef]

\* The store after batch.commit() has applied the operations in order.
RECURSIVE ApplyBatch(_, _)
ApplyBatch(st, operations) ==
    IF operations = <<>> THEN st
    ELSE ApplyBatch(ApplyOperation(st, Head(operations)), Tail(operations))

\* The backend commits a batch only when every document an update names exists.
BatchCanCommit(operations) ==
    \A i \in 1..Len(operations) :
        operations[i].type = "update" =>
            Truthy(store[operations[i].collection][operations[i].documentId])

\* res.json({ success: true, data: ... }) of these endpoints
EndpointSuccessResponse(data) ==
    [status |-> 200, body |-> Body(Bool(TRUE), Undef, data, Undef), writer |-> "route"]

\* POST /batch arrives: validateRequest, then the handler up to `await
\* batch.commit()` (firestore.js:491-541).
BatchReceive(r, operations) ==
    /\ pc[r] = "idle"
    /\ \A q \in Reqs : q < r => pc[q] # "idle"
    /\ req' = [req EXCEPT ![r] = [method |-> "BATCH", collectionId |-> "", id |-> Undef,
                                  data |-> Obj(operations)]]
    /\ IF ~BatchValidationPasses(operations)
       THEN /\ pc' = [pc EXCEPT ![r] = "done"]
            /\ resp' = [resp EXCEPT ![r] = BatchValidationFailedResponse]
            /\ raised' = raised
       ELSE IF BatchLoopThrows(operations)
       THEN /\ pc' = [pc EXCEPT ![r] = "done"]
            /\ raised' = [raised EXCEPT ![r] = [status |-> 400, code |-> "missing-data"]]
            /\ resp' = [resp EXCEPT ![r] =
                          RethrownResponse(r, "Failed to execute batch operation",
                                           "firestore-batch-error",
                                           Str(MissingDataMessage(operations)))]
       ELSE /\ pc' = [pc EXCEPT ![r] = "commit"]
            /\ UNCHANGED <<resp, raised>>
    /\ UNCHANGED <<fbVars, removed, nodeEnv, io, store, docRef, documentData, readDoc,
                   outcome, emitted, sockVars, sent, ehVars>>

\* `await batch.commit()` resolves (ok) or rejects, then the response
\* (firestore.js:541-560).
BatchCommit(r, ok) ==
    /\ pc[r] = "commit"
    /\ ok => BatchCanCommit(req[r].data.l)
    /\ pc' = [pc EXCEPT ![r] = "done"]
    /\ IF ok
       THEN /\ store' = ApplyBatch(store, req[r].data.l)
            /\ outcome' = [outcome EXCEPT ![r].write = "acked"]
            /\ resp' = [resp EXCEPT ![r] =
                          EndpointSuccessResponse(Obj(<< [count |-> Len(req[r].data.l)] >>))]
       ELSE /\ store' = store
            /\ outcome' = [outcome EXCEPT ![r].write = "failed"]
            /\ resp' = [resp EXCEPT ![r] =
                          RethrownResponse(r, "Failed to execute batch operation",
                                           "firestore-batch-error", Str("commit failed"))]
    /\ UNCHANGED <<fbVars, raised, removed, nodeEnv, io, req, docRef, documentData, readDoc,
                   emitted, sockVars, sent, ehVars>>

\* POST /tools/:toolName arrives: the handler up to the first await of the tool,
\* or the default case of the switch (mcp.js POST /tools/:toolName).
ToolReceive(r, toolName, collection, id, data) ==
    /\ pc[r] = "idle"
    /\ \A q \in Reqs : q < r => pc[q] # "idle"
    /\ req' = [req EXCEPT ![r] = [method |-> toolName, collectionId |-> collection,
                                  id |-> id, data |-> data]]
    /\ docRef' = [docRef EXCEPT ![r] = IF Truthy(id) THEN id.s ELSE ""]
    /\ IF toolName \in WriteTools
       THEN /\ pc' = [pc EXCEPT ![r] = "tool-write"]
            /\ UNCHANGED <<resp, raised>>
       ELSE /\ pc' = [pc EXCEPT ![r] = "done"]
            /\ raised' = [raised EXCEPT ![r] = [status |-> 404, code |-> "tool-not-found"]]
            /\ resp' = [resp EXCEPT ![r] =
                          RethrownResponse(r, "Tool execution failed: Tool '" \o toolName
                                                \o "' not found",
                                           "tool-execution-error",
                                           Str("Tool '" \o toolName \o "' not found"))]
    /\ UNCHANGED <<fbVars, removed, nodeEnv, io, store, documentData, readDoc,
                   outcome, emitted, sockVars, sent, ehVars>>

\* The write of executeFirestoreAddDocument (set or add), of
\* executeFirestoreUpdateDocument (update, which the backend rejects for a
\* document that does not exist) or of executeFirestoreDeleteDocument resolves
\* (ok) or rejects; doc(id) of an update or a delete throws when the arguments
\* carry no id.
ToolWrite(r, ok) ==
    /\ pc[r] = "tool-write"
    /\ LET tool == req[r].method
           c == req[r].collectionId
           id == IF docRef[r] = "" THEN AutoId(r) ELSE docRef[r]
           body == CASE tool = "firestore_add_document" -> CreatedDocument(req[r].data)
                     [] tool = "firestore_update_document" ->
                            MergedDocument(DocAt(c, id), req[r].data)
                     [] tool = "firestore_delete_document" -> Undef
       IN  /\ (ok /\ tool = "firestore_update_document") => Truthy(DocAt(c, id))
           /\ (ok /\ tool # "firestore_add_document") => docRef[r] # ""
           /\ store' = IF ok THEN [store EXCEPT ![c][id] = body] ELSE store
           /\ docRef' = [docRef EXCEPT ![r] = IF ok THEN id ELSE docRef[r]]
           /\ outcome' = [outcome EXCEPT ![r].write = IF ok THEN "acked" ELSE "failed"]
           /\ pc' = [pc EXCEPT ![r] =
                       IF ok /\ tool # "firestore_delete_document" THEN "tool-read" ELSE "done"]
           /\ resp' = [resp EXCEPT ![r] =
                         IF ~ok
                         THEN RethrownResponse(r, "Tool execution failed: write failed",
                                               "tool-execution-error", Str("write failed"))
                         ELSE IF tool = "firestore_delete_document"
                         THEN EndpointSuccessResponse(
                                  Obj(<< [tool |-> tool, id |-> id, collection |-> c] >>))
                         ELSE resp[r]]
    /\ UNCHANGED <<fbVars, raised, removed, nodeEnv, io, req, documentData, readDoc,
                   emitted, sockVars, sent, ehVars>>

\* `await docRef.get()` after the tool's write resolves (ok) or rejects, then the
\* response of the route.
ToolRead(r, ok) ==
    /\ pc[r] = "tool-read"
    /\ pc' = [pc EXCEPT ![r] = "done"]
    /\ IF ok
       THEN /\ readDoc' = [readDoc EXCEPT ![r] = DocAt(req[r].collectionId, docRef[r])]
            /\ resp' = [resp EXCEPT ![r] =
                          EndpointSuccessResponse(
                              Obj(<< [ tool |-> req[r].method, id |-> docRef[r],
                                       data |-> DocAt(req[r].collectionId, docRef[r]),
                                       collection |-> req[r].collectionId ] >>))]
       ELSE /\ readDoc' = readDoc
            /\ resp' = [resp EXCEPT ![r] =
                          RethrownResponse(r, "Tool execution failed: get failed",
                                           "tool-execution-error", Str("get failed"))]
    /\ UNCHANGED <<fbVars, raised, removed, nodeEnv, io, store, req, docRef, documentData,
                   outcome, emitted, sockVars, sent, ehVars>>

\* GET /collections/:collectionId/documents arrives: the handler up to `await
\* query.get()`, or the throw of the inner catch when `where` does not parse
\* (firestore.js:55-108).
ListReceive(r, collectionId, where) ==
    /\ pc[r] = "idle"
    /\ \A q \in Reqs : q < r => pc[q] # "idle"
    /\ req' = [req EXCEPT ![r] = [method |-> "LIST", collectionId |-> collectionId,
                                  id |-> Undef, data |-> where]]
    /\ IF Truthy(where) /\ ~ParsesAsJson(where.s)
       THEN /\ pc' = [pc EXCEPT ![r] = "done"]
            /\ raised' = [raised EXCEPT ![r] = [status |-> 400, code |-> "invalid-where-clause"]]
            /\ resp' = [resp EXCEPT ![r] =
                          RethrownResponse(r, "Failed to list documents in collection "
                                                \o collectionId,
                                           "firestore-query-error",
                                           Str("Invalid where clause format"))]
       ELSE /\ pc' = [pc EXCEPT ![r] = "query"]
            /\ UNCHANGED <<resp, raised>>
    /\ UNCHANGED <<fbVars, removed, nodeEnv, io, store, docRef, documentData, readDoc,
                   outcome, emitted, sockVars, sent, ehVars>>

\* `await query.get()` resolves (ok) or rejects, then the response
\* (firestore.js:108-142).
ListQuery(r, ok) ==
    /\ pc[r] = "query"
    /\ pc' = [pc EXCEPT ![r] = "done"]
    /\ resp' = [resp EXCEPT ![r] =
                  IF ok
                  THEN EndpointSuccessResponse(
                           Obj(<< [collection |-> req[r].collectionId] >>))
                  ELSE RethrownResponse(r, "Failed to list documents in collection "
                                             \o req[r].collectionId,
                                        "firestore-query-error", Str("query failed"))]
    /\ UNCHANGED <<fbVars, raised, removed, nodeEnv, io, store, req, docRef, documentData,
                   readDoc, outcome, emitted, sockVars, sent, ehVars>>

EndpointNext ==
    \/ \E r \in Reqs, operations \in OperationLists(MaxOps) : BatchReceive(r, operations)
    \/ \E r \in Reqs, ok \in BOOLEAN : BatchCommit(r, ok)
    \/ \E r \in Reqs, toolName \in ToolNames, c \in Collections :
         \E id \in {Undef} \cup {Str(d) : d \in ClientIds} :
            ToolReceive(r, toolName, c, id, DataOf(r))
    \/ \E r \in Reqs, ok \in BOOLEAN : ToolWrite(r, ok)
    \/ \E r \in Reqs, ok \in BOOLEAN : ToolRead(r, ok)
    \/ \E r \in Reqs, c \in Collections, where \in Wheres : ListReceive(r, c, where)
    \/ \E r \in Reqs, ok \in BOOLEAN : ListQuery(r, ok)

EndpointSpec == Init /\ [][EndpointNext]_vars


(***************************************************************************)
(* FirebaseSpec: config/firebase.js from module load.  initializeFirebase  *)
(* has no await, so a call of it is one step; closeFirebase awaits         *)
(* app.delete(), so other calls can run while it is pending.  Which call   *)
(* of the SDK throws is the SDK's choice.                                  *)
(***************************************************************************)
MaxCalls == 3

\* Where initializeFirebase can fail: loading the service account (file, env
\* vars, cert), or one of the SDK calls that follow.
FailPoints ==
    {"serviceAccount", "initializeApp", "getFirestore", "getStorage", "getAuth",
     "settings", "none"}

\* The position of a fail point in the body of initializeFirebase.
StepOf(failAt) ==
    CASE failAt = "serviceAccount" -> 1
      [] failAt = "initializeApp" -> 2
      [] failAt = "getFirestore" -> 3
      [] failAt = "getStorage" -> 4
      [] failAt = "getAuth" -> 5
      [] failAt = "settings" -> 6
      [] failAt = "none" -> 7

Call(op, result) == [op |-> op, result |-> result]

\* Room in the history for one more call, the pending closeFirebase included.
CanCall == Len(calls) + (IF closing = "no" THEN 0 ELSE 1) < MaxCalls

\* let db = null; let storage = null; let auth = null; let app = null
InitFB ==
    /\ nodeEnv = "production"
    /\ io = TRUE
    /\ store = [c \in Collections |-> [d \in DocIds |->
                    IF c = "users" /\ d = "d1" THEN SeedDocument ELSE Undef]]
    /\ req = [r \in Reqs |-> NoReq]
    /\ pc = [r \in Reqs |-> "idle"]
    /\ docRef = [r \in Reqs |-> ""]
    /\ documentData = [r \in Reqs |-> Undef]
    /\ readDoc = [r \in Reqs |-> Undef]
    /\ outcome = [r \in Reqs |-> NoOutcome]
    /\ resp = [r \in Reqs |-> NoResponse]
    /\ emitted = <<>>
    /\ conn = [s \in Sockets |-> "new"]
    /\ rooms = {}
    /\ sent = [s \in Sockets |-> <<>>]
    /\ lastMsg = [s \in Sockets |-> [c \in Collections |-> "none"]]
    /\ fault = NoFault
    /\ headersSent = FALSE
    /\ ehResult = NoResult
    /\ removed = [r \in Reqs |-> Undef]
    /\ raised = [r \in Reqs |-> NoRaise]
    /\ apps = 0
    /\ app = FALSE /\ db = FALSE /\ storage = FALSE /\ auth = FALSE
    /\ lastInit = "none"
    /\ closedSince = FALSE
    /\ closing = "no"
    /\ calls = <<>>

\* getExistingInstances(): getFirestore, getStorage and getAuth of getApps()[0];
\* TRUE when none of them throws.
getExistingInstances(failAt) == failAt \notin {"getFirestore", "getStorage", "getAuth"}

\* initializeFirebase(): with an app in the SDK's registry it returns
\* getExistingInstances() and assigns nothing; otherwise it assigns app, db,
\* storage and auth one after the other, up to the call that throws.
initializeFirebase(failAt) ==
    /\ CanCall
    /\ LET existing == apps > 0
           ok == IF existing THEN getExistingInstances(failAt) ELSE failAt = "none"
           step == StepOf(failAt)
       IN  /\ apps' = IF ~existing /\ step > 2 THEN apps + 1 ELSE apps
           /\ app' = IF ~existing /\ step > 2 THEN TRUE ELSE app
           /\ db' = IF ~existing /\ step > 3 THEN TRUE ELSE db
           /\ storage' = IF ~existing /\ step > 4 THEN TRUE ELSE storage
           /\ auth' = IF ~existing /\ step > 5 THEN TRUE ELSE auth
           /\ lastInit' = IF ok THEN "ok" ELSE "failed"
           /\ calls' = Append(calls, Call("initializeFirebase",
                                          IF ok THEN "resolved" ELSE "rejected"))
    /\ closedSince' = FALSE
    /\ UNCHANGED <<closing, raised, removed, nodeEnv, io, store, reqVars, emitted, sockVars,
                   sent, ehVars>>

\* closeFirebase() up to `await app.delete()`; with app null it resolves at once.
\* `early` is whether the SDK takes the app out of its registry at the call.
closeFirebaseBegin(early) ==
    /\ CanCall
    /\ closing = "no"
    /\ IF app
       THEN /\ closing' = IF early THEN "early" ELSE "late"
            /\ apps' = IF early /\ apps > 0 THEN apps - 1 ELSE apps
            /\ UNCHANGED <<closedSince, calls>>
       ELSE /\ closedSince' = TRUE
            /\ calls' = Append(calls, Call("closeFirebase", "resolved"))
            /\ UNCHANGED <<closing, apps>>
    /\ UNCHANGED <<app, db, storage, auth, lastInit, raised, removed, nodeEnv, io, store,
                   reqVars, emitted, sockVars, sent, ehVars>>

\* app.delete() resolves (ok): app = null; db = null; storage = null; auth = null.
\* When it rejects, the catch block rethrows and nothing is assigned.
closeFirebaseEnd(ok) ==
    /\ closing # "no"
    /\ closing' = "no"
    /\ apps' = IF ok /\ closing = "late" /\ apps > 0 THEN apps - 1 ELSE apps
    /\ app' = IF ok THEN FALSE ELSE app
    /\ db' = IF ok THEN FALSE ELSE db
    /\ storage' = IF ok THEN FALSE ELSE storage
    /\ auth' = IF ok THEN FALSE ELSE auth
    /\ closedSince' = IF ok THEN TRUE ELSE closedSince
    /\ calls' = Append(calls, Call("closeFirebase", IF ok THEN "resolved" ELSE "rejected"))
    /\ UNCHANGED <<lastInit, raised, removed, nodeEnv, io, store, reqVars, emitted, sockVars,
                   sent, ehVars>>

\* What a getter does with its module variable: if (!x) throw ...; return x
Getter(instance) == IF instance THEN "returned" ELSE "threw"

getDb ==
    /\ CanCall
    /\ calls' = Append(calls, Call("getDb", Getter(db)))
    /\ UNCHANGED <<apps, app, db, storage, auth, lastInit, closedSince, closing, raised,
                   removed, nodeEnv, io, store, reqVars, emitted, sockVars, sent, ehVars>>

getStorageInstance ==
    /\ CanCall
    /\ calls' = Append(calls, Call("getStorageInstance", Getter(storage)))
    /\ UNCHANGED <<apps, app, db, storage, auth, lastInit, closedSince, closing, raised,
                   removed, nodeEnv, io, store, reqVars, emitted, sockVars, sent, ehVars>>

getAuthInstance ==
    /\ CanCall
    /\ calls' = Append(calls, Call("getAuthInstance", Getter(auth)))
    /\ UNCHANGED <<apps, app, db, storage, auth, lastInit, closedSince, closing, raised,
                   removed, nodeEnv, io, store, reqVars, emitted, sockVars, sent, ehVars>>

getApp ==
    /\ CanCall
    /\ calls' = Append(calls, Call("getApp", Getter(app)))
    /\ UNCHANGED <<apps, app, db, storage, auth, lastInit, closedSince, closing, raised,
                   removed, nodeEnv, io, store, reqVars, emitted, sockVars, sent, ehVars>>

FirebaseNext ==
    \/ \E failAt \in FailPoints : initializeFirebase(failAt)
    \/ \E early \in BOOLEAN : closeFirebaseBegin(early)
    \/ \E ok \in BOOLEAN : closeFirebaseEnd(ok)
    \/ getDb
    \/ getStorageInstance
    \/ getAuthInstance
    \/ getApp

FirebaseSpec == InitFB /\ [][FirebaseNext]_vars

(***************************************************************************)
(* ErrorSpec: errorHandler applied once to a fault drawn from the shapes   *)
(* the upstream libraries raise (SDK errors with string codes, database    *)
(* errors with numeric codes, token, upload, validation and parse errors,  *)
(* plain Errors and bare thrown values) and from the APIErrors the routes  *)
(* create.                                                                 *)
(***************************************************************************)
MaxFieldErrors == 2

\* The field errors a validation result can hold; express-validator names the
\* field `param` in one major version and `path` in the next.
FieldErrors ==
    { [param |-> Str("data"), path |-> Undef,
       msg |-> Str("Document data must be an object"), value |-> Str("x")],
      [param |-> Undef, path |-> Str("id"),
       msg |-> Str("Document ID must be a string"), value |-> Num(5)] }

RECURSIVE ListsUpTo(_, _)
ListsUpTo(S, n) ==
    IF n = 0 THEN {<<>>}
    ELSE LET shorter == ListsUpTo(S, n - 1)
         IN  shorter \cup {Append(l, x) : l \in shorter, x \in S}

FaultArrays == {Undef} \cup {Obj(l) : l \in ListsUpTo(FieldErrors, MaxFieldErrors)}

\* A fault raised by a library: not marked operational, no statusCode, no details.
LibraryFault(nm, cd, ic, msg, ar, st) ==
    [ isOperational |-> FALSE, name |-> nm, code |-> cd, infoCode |-> ic,
      message |-> msg, arr |-> ar, statusCode |-> Undef, details |-> Undef,
      stack |-> st ]

Messages == {Undef, Str("boom")}
Stacks == {Undef, Str("stack")}

\* Backend SDK errors (string codes of the identity provider and the document
\* store, numeric status codes of the store's transport), system errors, plain
\* Errors and bare thrown values.
SdkFaults ==
    { LibraryFault(nm, cd, ic, msg, Undef, st) :
        nm \in {Undef, Str("Error"), Str("FirebaseError")},
        cd \in {Undef, Null, Str(""), Num(0), Num(5)} \cup
               {Str(x) : x \in {"auth/user-not-found", "auth/internal-error",
                                "not-found", "resource-exhausted"}},
        ic \in {Undef, Str("auth/user-not-found")},
        msg \in Messages, st \in Stacks }

\* Database driver errors: numeric codes.
MongoFaults ==
    { LibraryFault(Str(nm), cd, Undef, msg, Undef, st) :
        nm \in {"MongoError", "MongoServerError"},
        cd \in {Undef, Num(11000), Num(11001), Num(5)},
        msg \in Messages, st \in Stacks }

\* Token errors: no code.
TokenFaults ==
    { LibraryFault(Str(nm), Undef, Undef, msg, Undef, st) :
        nm \in {"JsonWebTokenError", "TokenExpiredError", "NotBeforeError"},
        msg \in Messages, st \in Stacks }

\* Upload errors: a LIMIT_ code.
UploadFaults ==
    { LibraryFault(Str("MulterError"), Str(cd), Undef, msg, Undef, st) :
        cd \in DOMAIN multerErrors \cup {"LIMIT_PART_COUNT"},
        msg \in Messages, st \in Stacks }

\* Validation errors: named ValidationError, or a validation result with array().
ValidationFaults ==
    { LibraryFault(nm, Undef, Undef, msg, ar, st) :
        nm \in {Undef, Str("Error"), Str("ValidationError")},
        msg \in Messages, ar \in FaultArrays, st \in Stacks }

\* Cast and parse errors.
ParseFaults ==
    { LibraryFault(Str(nm), Undef, Undef, msg, Undef, st) :
        nm \in {"CastError", "SyntaxError"},
        msg \in Messages \cup {Str("Unexpected token } in JSON at position 3")},
        st \in Stacks }

LibraryFaults ==
    SdkFaults \cup MongoFaults \cup TokenFaults \cup UploadFaults
        \cup ValidationFaults \cup ParseFaults

\* APIErrors (and objects marked isOperational) as the routes create them.
OperationalFaults ==
    { [ isOperational |-> TRUE, name |-> Str("APIError"), code |-> cd, infoCode |-> Undef,
        message |-> msg, arr |-> Undef, statusCode |-> sc, details |-> dt,
        stack |-> Str("stack") ] :
      cd \in {Null, Str("invalid-where-clause")},
      msg \in {Str("boom")},
      sc \in {Undef, Null, Num(400), Num(404), Num(500), Num(503)},
      dt \in {Null, Str("cause")} }

Faults == LibraryFaults \cup OperationalFaults

\* The request during which the fault was raised.
EhReq == [method |-> Str("POST"), originalUrl |-> Str("/api/v1/storage/upload")]

InitEH ==
    /\ nodeEnv \in {"production", "development"}
    /\ io = TRUE
    /\ store = [c \in Collections |-> [d \in DocIds |->
                    IF c = "users" /\ d = "d1" THEN SeedDocument ELSE Undef]]
    /\ req = [r \in Reqs |-> NoReq]
    /\ pc = [r \in Reqs |-> "idle"]
    /\ docRef = [r \in Reqs |-> ""]
    /\ documentData = [r \in Reqs |-> Undef]
    /\ readDoc = [r \in Reqs |-> Undef]
    /\ outcome = [r \in Reqs |-> NoOutcome]
    /\ resp = [r \in Reqs |-> NoResponse]
    /\ emitted = <<>>
    /\ conn = [s \in Sockets |-> "new"]
    /\ rooms = {}
    /\ sent = [s \in Sockets |-> <<>>]
    /\ lastMsg = [s \in Sockets |-> [c \in Collections |-> "none"]]
    /\ fault \in Faults
    /\ headersSent \in BOOLEAN
    /\ ehResult = NoResult
    /\ removed = [r \in Reqs |-> Undef]
    /\ raised = [r \in Reqs |-> NoRaise]
    /\ Initialized

\* Express calls errorHandler(error, req, res, next) with the fault.
HandleFault ==
    /\ ehResult.outcome = "none"
    /\ ehResult' = errorHandler(fault, headersSent, nodeEnv, EhReq)
    /\ UNCHANGED <<fbVars, raised, removed, nodeEnv, io, store, reqVars, emitted, sockVars, sent, fault, headersSent>>

NextEH == HandleFault

ErrorSpec == InitEH /\ [][NextEH]_vars


(***************************************************************************)
(* Properties.                                                             *)
(***************************************************************************)

\* The positions in `emitted` of the events of request r.
EventsOf(r) == {i \in 1..Len(emitted) : emitted[i].req = r}

\* The copies of the event of request r that were written to socket s.
Copies(s, r) == Cardinality({i \in 1..Len(sent[s]) : sent[s][i].req = r})

\* Request r was turned away before any write: validation failure, 404, 409.
Rejected(r) == pc[r] = "done" /\ outcome[r].write = "none" /\ resp[r].status \in {400, 404, 409}

\* C1: an event of a create / update / delete request exists only once the
\* backend has acknowledged the write of that same request; a request that was
\* rejected (validation failure, 404, 409) or whose write failed has no event,
\* neither emitted nor written to any socket.
C1_EventOnlyAfterAcknowledgedWrite ==
    /\ \A i \in 1..Len(emitted) : outcome[emitted[i].req].write = "acked"
    /\ \A s \in Sockets : \A i \in 1..Len(sent[s]) : outcome[sent[s][i].req].write = "acked"
    /\ \A r \in Reqs :
         (Rejected(r) \/ outcome[r].write = "failed") =>
            (EventsOf(r) = {} /\ \A s \in Sockets : Copies(s, r) = 0)

\* One request has emitted its event after its acknowledged write, while another
\* one ended on a failed write without any event.
C1_Witness ==
    \E r1, r2 \in Reqs :
        /\ EventsOf(r1) # {}
        /\ outcome[r1].write = "acked"
        /\ pc[r2] = "done"
        /\ outcome[r2].write = "failed"
        /\ EventsOf(r2) = {}

\* C2 (as claimed): every request whose write was acknowledged ends with exactly
\* one event emitted, whatever happened after the write.
C2_ExactlyOneEventPerAcknowledgedWrite ==
    \A r \in Reqs :
        (pc[r] = "done" /\ outcome[r].write = "acked") => Cardinality(EventsOf(r)) = 1

\* C3 (as claimed): whenever errorHandler is called with headers not yet sent,
\* it writes one error response and does not throw.
C3_ErrorHandlerTotal ==
    (ehResult.outcome # "none" /\ ~headersSent) =>
        (ehResult.outcome = "sent" /\ ehResult.response.status >= 400)

\* C4: every emitted event was written exactly once to every socket that was in
\* the room of the event's collection when it was emitted, and to no other socket.
C4_FanoutExactlyToSubscribers ==
    \A i \in 1..Len(emitted) : \A s \in Sockets :
        /\ emitted[i].room = RoomOf(emitted[i].payload.collection)
        /\ Copies(s, emitted[i].req) = IF s \in emitted[i].members THEN 1 ELSE 0
        /\ \A j \in 1..Len(sent[s]) :
              sent[s][j].req = emitted[i].req => sent[s][j] = emitted[i]

\* An event went to two subscribers of its collection, one copy each.
C4_Witness ==
    \E i \in 1..Len(emitted) :
        /\ Cardinality(emitted[i].members) >= 2
        /\ \A s \in emitted[i].members : Copies(s, emitted[i].req) = 1

\* C5: the rooms hold open sockets only, and a socket that has closed is
\* written no event from then on.
RegistryHoldsOpenSocketsOnly == \A p \in rooms : conn[p[1]] = "open"
ClosedSocketReceivesNothing == \A s \in Sockets : conn[s] = "closed" => sent'[s] = sent[s]
C6_SubscribedIffLastMessageSubscribe ==
    \A s \in Sockets : \A n \in Collections :
        conn[s] = "open" =>
            (<<s, RoomOf(n)>> \in rooms <=> lastMsg[s][n] = "subscribe")

\* A socket whose last message about one collection was an unsubscribe and about
\* the other a subscribe.
C6_Witness ==
    \E s \in Sockets : \E n, m \in Collections :
        /\ conn[s] = "open"
        /\ lastMsg[s][n] = "unsubscribe" /\ <<s, RoomOf(n)>> \notin rooms
        /\ lastMsg[s][m] = "subscribe" /\ <<s, RoomOf(m)>> \in rooms

\* C7: once an event has been emitted, no later step writes it to any socket (a
\* socket that joins the room afterwards does not get it), and no socket ever
\* holds two copies of an event.
AtMostOneCopy == \A s \in Sockets : \A r \in Reqs : Copies(s, r) <= 1
EmittedEventNotDeliveredLater ==
    \A s \in Sockets : \A r \in Reqs :
        EventsOf(r) # {} => Copies(s, r)' = Copies(s, r)
C7_SnapshotSemantics == [](AtMostOneCopy) /\ [][EmittedEventNotDeliveredLater]_vars

\* A socket is in the room of an event that was emitted before it joined.
C7_Witness ==
    \E s \in Sockets : \E i \in 1..Len(emitted) :
        /\ s \notin emitted[i].members
        /\ <<s, emitted[i].room>> \in rooms
        /\ Copies(s, emitted[i].req) = 0

\* C8 (as claimed): a request whose write was acknowledged and which reached the
\* emit ends with its success response, also when the emit call throws.
C8_DeliveryFailureKeepsSuccess ==
    \A r \in Reqs :
        (pc[r] = "done" /\ outcome[r].write = "acked" /\ outcome[r].emit # "none") =>
            resp[r].status = IF req[r].method = "POST" THEN 201 ELSE 200

\* C9 (as claimed): every error response of a request was written by errorHandler.
C9_ErrorsOnlyFromErrorHandler ==
    \A r \in Reqs : resp[r].status >= 400 => resp[r].writer = "errorHandler"

\* The one specific formatter a fault calls for, when it also carries a truthy
\* code: formatMulterError for a LIMIT_ code, formatMongoError for a Mongo name,
\* formatJWTError for a token-error name.
IsUploadFault(f) == f.code.t = "string" /\ StartsWith(f.code.s, "LIMIT_")
IsMongoFault(f) == IsStr(f.name, "MongoError") \/ IsStr(f.name, "MongoServerError")
IsTokenFault(f) == f.name.t = "string" /\ f.name.s \in DOMAIN jwtErrors
SpecificCount(f) ==
    (IF IsUploadFault(f) THEN 1 ELSE 0) + (IF IsMongoFault(f) THEN 1 ELSE 0)
        + (IF IsTokenFault(f) THEN 1 ELSE 0)
SpecificFormat(f) ==
    CASE IsUploadFault(f) -> formatMulterError(f)
      [] IsMongoFault(f) -> formatMongoError(f)
      [] IsTokenFault(f) -> formatJWTError(f)

\* C10 (as claimed): a fault that has a truthy code and meets exactly one of the
\* specific conditions is answered with what its specific formatter returns.
C10_MostSpecificFormatterWins ==
    ( /\ ehResult.outcome # "none"
      /\ ~headersSent
      /\ ~fault.isOperational
      /\ Truthy(fault.code)
      /\ SpecificCount(fault) = 1 ) =>
        /\ ehResult.outcome = "sent"
        /\ ehResult.response.status = SpecificFormat(fault).statusCode.n
        /\ ehResult.response.body.error.l[1].code = SpecificFormat(fault).code
        /\ ehResult.response.body.error.l[1].message = SpecificFormat(fault).message

(***************************************************************************)
(* Properties of the error middleware's mappings (ErrorSpec).              *)
(***************************************************************************)

\* errorHandler was called with headers not yet sent.
Handled == ehResult.outcome # "none" /\ ~headersSent

\* The error object of the body errorHandler wrote.
SentError == ehResult.response.body.error.l[1]

\* The fault meets none of the conditions of the dispatch chain: it is not
\* operational, has no truthy code, no array(), none of the names the chain
\* tests, no name containing JsonWebToken, and, when it is a SyntaxError, a
\* message text without JSON in it.
MatchesNoBranch(f) ==
    /\ ~f.isOperational
    /\ ~Truthy(f.code)
    /\ ~Truthy(f.arr)
    /\ f.name.t \in {"undefined", "string"}
    /\ f.name.t = "string" =>
          /\ f.name.s \notin {"FirebaseError", "ValidationError", "MongoError",
                              "MongoServerError", "CastError"}
          /\ ~Includes(f.name.s, "JsonWebToken")
          /\ f.name.s = "SyntaxError" =>
                (f.message.t = "string" /\ ~Includes(f.message.s, "JSON"))

\* C11: a fault that matches none of the dispatch branches is answered with
\* status 500 and code internal-server-error; the message is 'Internal server
\* error' in production and the fault's own message otherwise.
C11_FallbackIsInternalServerError ==
    (Handled /\ MatchesNoBranch(fault)) =>
        /\ ehResult.outcome = "sent"
        /\ ehResult.response.status = 500
        /\ SentError.statusCode = Num(500)
        /\ SentError.code = Str("internal-server-error")
        /\ SentError.message = IF nodeEnv = "production"
                                THEN Str("Internal server error")
                                ELSE fault.message

\* In production, a plain Error with a message of its own was answered by the
\* fallback with the generic phrase.
C11_Witness ==
    /\ Handled
    /\ ehResult.outcome = "sent"
    /\ MatchesNoBranch(fault)
    /\ nodeEnv = "production"
    /\ fault.name = Str("Error")
    /\ fault.message = Str("boom")
    /\ SentError.message = Str("Internal server error")

\* C12 (as claimed): a fault of the identity provider whose code says that the
\* user was not found is answered with status 404 and code "user-not-found".
C12_UserNotFoundIs404UserNotFound ==
    (Handled /\ ~fault.isOperational /\ fault.code = Str("auth/user-not-found")) =>
        /\ ehResult.outcome = "sent"
        /\ ehResult.response.status = 404
        /\ SentError.code = Str("user-not-found")

\* C13 (as claimed): a fault of the document store with code not-found is
\* answered with code "document-not-found", status 404 and message
\* "Document not found".
C13_NotFoundIsDocumentNotFound ==
    (Handled /\ ~fault.isOperational /\ fault.code = Str("not-found")) =>
        /\ ehResult.outcome = "sent"
        /\ ehResult.response.status = 404
        /\ SentError.message = Str("Document not found")
        /\ SentError.code = Str("document-not-found")

\* C14 (as claimed): an upload fault with code LIMIT_FILE_SIZE is answered with
\* code "file-upload-error", status 413 and message "File too large".
C14_SizeLimitIs413 ==
    (Handled /\ ~fault.isOperational /\ fault.code = Str("LIMIT_FILE_SIZE")) =>
        /\ ehResult.outcome = "sent"
        /\ ehResult.response.status = 413
        /\ SentError.code = Str("file-upload-error")
        /\ SentError.message = Str("File too large")

\* C15 (as claimed): a token fault named JsonWebTokenError, TokenExpiredError
\* or NotBeforeError is answered with status 401.
C15_TokenFaultsAre401 ==
    (Handled /\ ~fault.isOperational /\ fault.name.t = "string"
             /\ fault.name.s \in {"JsonWebTokenError", "TokenExpiredError", "NotBeforeError"}) =>
        /\ ehResult.outcome = "sent"
        /\ ehResult.response.status = 401

\* A validation fault: named ValidationError, or exposing array().
IsValidationFault(f) ==
    ~f.isOperational /\ (IsStr(f.name, "ValidationError") \/ Truthy(f.arr))

\* The details of the normalized error of the fault handled.
NormalizedDetails == Format(fault, nodeEnv).details

\* C16: a validation fault is answered with status 400 and code
\* validation-error; when it exposes array(), the details.errors of the
\* normalized error holds one {field, message, value} triple per field error,
\* in the same order (field being the error's param, or else its path), and
\* outside production the response carries these details.
C16_ValidationFaultIs400WithTriples ==
    (Handled /\ IsValidationFault(fault)) =>
        /\ ehResult.outcome = "sent"
        /\ ehResult.response.status = 400
        /\ SentError.code = Str("validation-error")
        /\ Truthy(fault.arr) =>
              /\ NormalizedDetails.t = "object"
              /\ Len(NormalizedDetails.l[1].errors) = Len(fault.arr.l)
              /\ \A i \in 1..Len(fault.arr.l) :
                    LET triple == NormalizedDetails.l[1].errors[i]
                        err == fault.arr.l[i]
                    IN  /\ DOMAIN triple = {"field", "message", "value"}
                        /\ triple.field = (IF Truthy(err.param) THEN err.param ELSE err.path)
                        /\ triple.message = err.msg
                        /\ triple.value = err.value
              /\ nodeEnv # "production" => SentError.details = NormalizedDetails

\* A validation result with two different field errors, one naming its field by
\* `param` and one by `path`, was answered 400 outside production.
C16_Witness ==
    /\ Handled
    /\ ehResult.outcome = "sent"
    /\ IsValidationFault(fault)
    /\ nodeEnv = "development"
    /\ Truthy(fault.arr)
    /\ Len(fault.arr.l) = 2
    /\ Truthy(fault.arr.l[1].param)
    /\ ~Truthy(fault.arr.l[2].param)
    /\ ehResult.response.status = 400
    /\ SentError.details.l[1].errors[2].field = Str("id")

\* C17 (as claimed): a fault of the document store whose code is not in the
\* table is answered, without throwing, with status 500 and code "internal".
C17_UnmappedStoreCodeIsInternal ==
    (Handled /\ fault \in SdkFaults /\ Truthy(fault.code)
             /\ KeyOf(fault.code) \notin DOMAIN FIREBASE_ERROR_CODES
             /\ ~(fault.code.t = "string" /\ StartsWith(fault.code.s, "auth/"))) =>
        /\ ehResult.outcome = "sent"
        /\ ehResult.response.status = 500
        /\ SentError.code = Str("internal")

\* C18 (as claimed): every body errorHandler writes is { success: false,
\* error: { message, code, statusCode, timestamp, path, method, details? } },
\* and the status of the response equals error.statusCode.
C18_BodyShape ==
    (Handled /\ ehResult.outcome = "sent") =>
        /\ ehResult.response.body.success = Bool(FALSE)
        /\ ehResult.response.body.error.t = "object"
        /\ {"message", "code", "statusCode", "timestamp", "path", "method"}
              \subseteq DOMAIN SentError
        /\ SentError.statusCode = Num(ehResult.response.status)

\* C19 (as claimed): every response of a request with status >= 400 has an
\* error object whose code is a string.
C19_FailureCarriesStringCode ==
    \A r \in Reqs :
        resp[r].status >= 400 =>
            /\ resp[r].body.error.t = "object"
            /\ resp[r].body.error.l[1].code.t = "string"

\* C20 (as claimed): in production, a response of errorHandler with status >= 500
\* to a library fault never carries the fault's own message.
C20_ProductionHidesUpstreamMessage ==
    (Handled /\ ehResult.outcome = "sent" /\ nodeEnv = "production"
             /\ ~fault.isOperational /\ Truthy(fault.message)
             /\ ehResult.response.status >= 500) =>
        SentError.message # fault.message

\* C21: in production the body errorHandler writes has neither error.details
\* nor error.stack; outside production it has error.details exactly when the
\* normalized error has details, and then these very details.
C21_DetailsOnlyOutsideProduction ==
    (Handled /\ ehResult.outcome = "sent") =>
        /\ nodeEnv = "production" =>
              (SentError.details = Undef /\ SentError.stack = Undef)
        /\ nodeEnv # "production" =>
              /\ (SentError.details # Undef) <=> Truthy(NormalizedDetails)
              /\ Truthy(NormalizedDetails) => SentError.details = NormalizedDetails

\* In production, an operational error that has details and a stack was answered
\* without either.
C21_Witness ==
    /\ Handled
    /\ ehResult.outcome = "sent"
    /\ nodeEnv = "production"
    /\ fault.isOperational
    /\ fault.details = Str("cause")
    /\ Truthy(fault.stack)
    /\ SentError.details = Undef
    /\ SentError.stack = Undef

\* C22 (as claimed): errorHandler logs one entry for the fault it answers, at
\* level warn iff the status of the response is in 400..499 and at level error
\* iff it is >= 500.
C22_LogLevelFollowsStatus ==
    (Handled /\ ehResult.outcome = "sent") =>
        /\ ehResult.log.level \in {"warn", "error"}
        /\ ehResult.log.level = "warn" <=> ehResult.response.status \in 400..499
        /\ ehResult.log.level = "error" <=> ehResult.response.status >= 500

(***************************************************************************)
(* Properties of the document routes under concurrent requests (Spec).     *)
(***************************************************************************)

\* C24: every emitted event carries the room of its request's collectionId, the
\* event name of its route, and the id of the document its request wrote: the
\* id the client gave, or the id the backend generated for a create without one.
C24_EventCarriesTopicKindAndId ==
    \A i \in 1..Len(emitted) :
        LET r == emitted[i].req
        IN  /\ emitted[i].room = "collection:" \o req[r].collectionId
            /\ emitted[i].payload.collection = req[r].collectionId
            /\ emitted[i].name = (CASE req[r].method = "POST" -> "document-created"
                                     [] req[r].method = "PUT" -> "document-updated"
                                     [] req[r].method = "DELETE" -> "document-deleted")
            /\ emitted[i].payload.documentId =
                  (IF Truthy(req[r].id) THEN req[r].id.s ELSE AutoId(r))
            /\ emitted[i].payload.documentId = docRef[r]

\* A create without an id has emitted document-created with the generated id,
\* and a delete has emitted document-deleted.
C24_Witness ==
    \E i, j \in 1..Len(emitted) :
        /\ req[emitted[i].req].method = "POST"
        /\ ~Truthy(req[emitted[i].req].id)
        /\ emitted[i].payload.documentId = AutoId(emitted[i].req)
        /\ emitted[i].name = "document-created"
        /\ emitted[j].name = "document-deleted"

\* C25 (as claimed): the data of a document-created or document-updated event is
\* the body its request wrote, and the data of a document-deleted event is the
\* body its request's delete removed.
C25_PayloadIsOwnWrite ==
    \A i \in 1..Len(emitted) :
        LET r == emitted[i].req
        IN  emitted[i].payload.data =
              (CASE req[r].method = "POST" -> CreatedDocument(req[r].data)
                 [] req[r].method = "PUT" -> UpdatedDocument(req[r].data)
                 [] req[r].method = "DELETE" -> removed[r])

\* Requests r1 and r2 are creates of the same collection with the same given id.
SameCreate(r1, r2) ==
    /\ r1 # r2
    /\ req[r1].method = "POST" /\ req[r2].method = "POST"
    /\ req[r1].collectionId = req[r2].collectionId
    /\ Truthy(req[r1].id) /\ req[r1].id = req[r2].id

\* C26 (as claimed): of two creates with the same collection and id at most one
\* writes, answers 201 and emits document-created.
C26_CreateNeverOverwrites ==
    \A r1, r2 \in Reqs :
        SameCreate(r1, r2) =>
            /\ ~(outcome[r1].write = "acked" /\ outcome[r2].write = "acked")
            /\ ~(resp[r1].status = 201 /\ resp[r2].status = 201)
            /\ ~(EventsOf(r1) # {} /\ EventsOf(r2) # {})

\* No request creates document d of collection c.
NoCreateOf(c, d) ==
    \A q \in Reqs : ~(req[q].method = "POST" /\ req[q].collectionId = c /\ req[q].id = Str(d))

\* A delete of document d of collection c was acknowledged.
DeleteAcked(c, d) ==
    \E q \in Reqs : /\ req[q].method = "DELETE" /\ req[q].collectionId = c
                     /\ docRef[q] = d /\ outcome[q].write = "acked"

\* C27 (as claimed): when no create of the document is around, a document whose
\* delete was acknowledged is absent from the store, and no document-updated
\* event for it follows its document-deleted event.
C27_UpdateNeverCreates ==
    \A c \in Collections, d \in ClientIds :
        NoCreateOf(c, d) =>
            /\ DeleteAcked(c, d) => store[c][d] = Undef
            /\ \A i, j \in 1..Len(emitted) :
                  ~( /\ i < j
                     /\ emitted[i].name = "document-deleted"
                     /\ emitted[j].name = "document-updated"
                     /\ emitted[i].payload = [emitted[j].payload EXCEPT !.data = emitted[i].payload.data]
                     /\ emitted[i].payload.collection = c
                     /\ emitted[i].payload.documentId = d )

\* C30: a create, update or delete request that has its 2xx response has its
\* event emitted to the room of its collection already; a finished request has
\* a response, and a response once written is never written again.
ResponseOnlyAfterEvent ==
    \A r \in Reqs :
        (io /\ req[r].method \in {"POST", "PUT", "DELETE"} /\ resp[r].status \in {200, 201}) =>
            \E i \in 1..Len(emitted) :
                /\ emitted[i].req = r
                /\ emitted[i].room = "collection:" \o req[r].collectionId
FinishedHasResponse == \A r \in Reqs : pc[r] = "done" <=> resp[r] # NoResponse
ResponseWrittenOnce == \A r \in Reqs : resp[r] # NoResponse => resp'[r] = resp[r]
C30_EventBeforeResponse ==
    [](ResponseOnlyAfterEvent /\ FinishedHasResponse) /\ [][ResponseWrittenOnce]_vars

\* A create was answered 201 after its event went to a subscribed socket, and
\* another request was answered with an error.
C30_Witness ==
    \E r, q \in Reqs : \E s \in Sockets :
        /\ resp[r].status = 201
        /\ Copies(s, r) = 1
        /\ resp[q].status >= 400


(***************************************************************************)
(* Properties of the batch, list and tool endpoints (EndpointSpec).        *)
(***************************************************************************)

\* The collections a finished request of these endpoints wrote to.
WrittenCollections(r) ==
    IF req[r].method = "BATCH"
    THEN {req[r].data.l[i].collection : i \in 1..Len(req[r].data.l)}
    ELSE {req[r].collectionId}

\* C23 (as claimed): a request of POST /batch or of a writing tool whose write
\* the backend acknowledged has published an event to the room of every
\* collection it wrote.
C23_CommittedWritePublishes ==
    \A r \in Reqs :
        (pc[r] = "done" /\ outcome[r].write = "acked") =>
            \A c \in WrittenCollections(r) :
                \E i \in 1..Len(emitted) :
                    emitted[i].req = r /\ emitted[i].room = RoomOf(c)

\* C28 (as claimed): a request whose handler raised an operational 4xx error is
\* answered with that status and that code, and a batch that raised one wrote
\* nothing.
C28_RaisedClientErrorReachesClient ==
    \A r \in Reqs :
        (pc[r] = "done" /\ raised[r] # NoRaise) =>
            /\ resp[r].status = raised[r].status
            /\ resp[r].body.error.l[1].code = Str(raised[r].code)
            /\ req[r].method = "BATCH" => outcome[r].write = "none"


(***************************************************************************)
(* Properties of config/firebase.js (FirebaseSpec).                        *)
(***************************************************************************)

\* An initializeFirebase() has resolved and no closeFirebase() has resolved
\* after it.
InitializedSinceClose ==
    \E i \in 1..Len(calls) :
        /\ calls[i] = Call("initializeFirebase", "resolved")
        /\ \A j \in (i + 1)..Len(calls) : calls[j] # Call("closeFirebase", "resolved")

\* C29 (as claimed): when the most recent initializeFirebase resolved and no
\* closeFirebase has completed since, the four getters return; before any
\* initializeFirebase has resolved, and after a closeFirebase has completed with
\* none resolving since, the four getters throw.
C29_GettersFollowInitAndClose ==
    /\ (lastInit = "ok" /\ ~closedSince) =>
          {Getter(db), Getter(storage), Getter(auth), Getter(app)} = {"returned"}
    /\ ~InitializedSinceClose =>
          {Getter(db), Getter(storage), Getter(auth), Getter(app)} = {"threw"}

====
